---- MODULE Spec2Model ----
(***************************************************************************)
(* CustomPlayer of game_agent.py: get_move (the iterative-deepening        *)
(* driver and the Timeout handler), minimax, alphabeta and their static    *)
(* helpers.                                                                *)
(*                                                                         *)
(* The board (isolation.Board) is outside the repository.  It is used only *)
(* through get_legal_moves and forecast_move, so a game state is a node of *)
(* a finite game tree: the path of move indices from the root.  A move is  *)
(* the pair <<ply, k>> of the k-th legal move of a state at that ply.      *)
(* Scores are Python floats; only their order is used, so they are         *)
(* integers here with NegInf / PosInf for float("-inf") / float("inf").    *)
(* The interpreter is Python 3: ordering None against a float raises       *)
(* TypeError.                                                              *)
(***************************************************************************)
EXTENDS Integers, Sequences, FiniteSets, TLC

\* ---------------------------------------------------------------- bounds
\* Largest depth the iterative driver completes before the clock runs low,
\* and largest configured search_depth.
MaxDepth == 3

\* Largest number of game states of a game tree (the root included).
MaxStates == 5

\* ------------------------------------------------------------- constants
NegInf == -100
PosInf == 100
\* Python's None as a score (never a value of the evaluation function).
None == 1000
NO_MOVE == <<-1, -1>>

\* Values the evaluation function can take.
Scores == {NegInf, -1, 0, 1, PosInf}

\* The game states: at most two legal moves per state, at most three plies.
MoveIndex == {1, 2}
Root == <<>>
Ply1 == {<<a>> : a \in MoveIndex}
Ply2 == {<<a, b>> : a \in MoveIndex, b \in MoveIndex}
Ply3 == {<<a, b, c>> : a \in MoveIndex, b \in MoveIndex, c \in MoveIndex}
Nodes == {Root} \cup Ply1 \cup Ply2 \cup Ply3

VARIABLES
    kids,          \* the board: number of legal moves of each game state
    score_fn,      \* self.score: the evaluation function, on the states evaluated so far
    method,        \* self.method
    iterative,     \* self.iterative
    search_depth,  \* self.search_depth
    pc,            \* where get_move is
    depth,         \* get_move: the loop variable of count(1)
    score,         \* get_move: local score
    move,          \* get_move: local move
    stack,         \* the pending invocations of minimax / alphabeta, outermost first
    exc,           \* the exception in flight, "none" when there is none
    result,        \* what get_move returned
    fn             \* direct calls of minimax and alphabeta (SpecFn)

vars == <<kids, score_fn, method, iterative, search_depth, pc, depth, score, move,
          stack, exc, result, fn>>

\* ------------------------------------------------------ the board's interface
get_legal_moves(game) == [k \in 1..kids[game] |-> <<Len(game), k>>]

forecast_move(game, m) == Append(game, m[2])

is_game_terminal(game) == Len(get_legal_moves(game)) = 0

\* --------------------------------------------------------- static helpers
\* Python's `current or default`: None and 0.0 are both falsy.
py_or(current, default) == IF current = None \/ current = 0 THEN default ELSE current

minimax_change_decision(maxplayer, proposed, current) ==
    IF maxplayer /\ proposed > py_or(current, NegInf) THEN TRUE
    ELSE IF ~maxplayer /\ proposed < py_or(current, PosInf) THEN TRUE
    ELSE FALSE

alphabeta_cut_decision(maxplayer, alpha, beta) ==
    IF maxplayer /\ alpha >= beta THEN TRUE
    ELSE IF ~maxplayer /\ alpha >= beta THEN TRUE
    ELSE FALSE

\* Mutant: the bound of the acting player is set without the comparison.
alphabeta_update_unconditional(maxplayer, alpha, beta, proposed) ==
    IF maxplayer THEN <<proposed, beta>> ELSE <<alpha, proposed>>

alphabeta_update(maxplayer, alpha, beta, proposed) ==
    IF maxplayer /\ proposed > alpha THEN <<proposed, beta>>
    ELSE IF ~maxplayer /\ proposed < beta THEN <<alpha, proposed>>
    ELSE <<alpha, beta>>

\* One pass of minimax's loop body after the child returned s for move m.
minimax_body(maxplayer, s, m, cur_score, cur_move) ==
    IF minimax_change_decision(maxplayer, s, cur_score)
    THEN [score |-> s, move |-> m]
    ELSE [score |-> cur_score, move |-> cur_move]

\* One pass of alphabeta's loop body after the child returned s for move m.
alphabeta_body(maxplayer, s, m, cur_score, cur_move, alpha, beta) ==
    IF minimax_change_decision(maxplayer, s, cur_score)
    THEN LET ab == alphabeta_update(maxplayer, alpha, beta, s)
         IN [score |-> s, move |-> m, alpha |-> ab[1], beta |-> ab[2],
             cut |-> alphabeta_cut_decision(maxplayer, ab[1], ab[2])]
    ELSE [score |-> cur_score, move |-> cur_move, alpha |-> alpha, beta |-> beta,
          cut |-> FALSE]

\* ------------------------------------- minimax and alphabeta as functions
\* (the deadline never fires).  A call ends with a (score, move) pair or
\* with a TypeError.
Returned(s, m) == [exc |-> "none", score |-> s, move |-> m]
Raised(e) == [exc |-> e, score |-> None, move |-> NO_MOVE]

RECURSIVE minimax(_, _, _)
RECURSIVE minimax_loop(_, _, _, _, _, _)

minimax_loop(game, subdepth, maxplayer, i, cur_score, cur_move) ==
    LET moves == get_legal_moves(game) IN
    IF i > Len(moves) THEN Returned(cur_score, cur_move)
    ELSE LET m == moves[i]
             r == minimax(forecast_move(game, m), subdepth, ~maxplayer)
         IN IF r.exc # "none" THEN r
            ELSE IF r.score = None THEN Raised("TypeError")
            ELSE LET b == minimax_body(maxplayer, r.score, m, cur_score, cur_move)
                 IN minimax_loop(game, subdepth, maxplayer, i + 1, b.score, b.move)

minimax(game, d, maximizing_player) ==
    IF d = 0 \/ is_game_terminal(game)
    THEN Returned(score_fn[game], NO_MOVE)
    ELSE minimax_loop(game, d - 1, maximizing_player, 1, None, get_legal_moves(game)[1])

RECURSIVE alphabeta(_, _, _, _, _)
RECURSIVE alphabeta_loop(_, _, _, _, _, _, _, _)

alphabeta_loop(game, subdepth, maxplayer, i, cur_score, cur_move, alpha, beta) ==
    LET moves == get_legal_moves(game) IN
    IF i > Len(moves) THEN Returned(cur_score, cur_move)
    ELSE LET m == moves[i]
             r == alphabeta(forecast_move(game, m), subdepth, alpha, beta, ~maxplayer)
         IN IF r.exc # "none" THEN r
            ELSE IF r.score = None THEN Raised("TypeError")
            ELSE LET b == alphabeta_body(maxplayer, r.score, m, cur_score, cur_move, alpha, beta)
                 IN IF b.cut THEN Returned(b.score, b.move)
                    ELSE alphabeta_loop(game, subdepth, maxplayer, i + 1,
                                        b.score, b.move, b.alpha, b.beta)

alphabeta(game, d, alpha, beta, maximizing_player) ==
    IF d = 0 \/ is_game_terminal(game)
    THEN Returned(score_fn[game], NO_MOVE)
    ELSE alphabeta_loop(game, d - 1, maximizing_player, 1, None, get_legal_moves(game)[1],
                        alpha, beta)

\* ------------------------------------------------------------ game trees
\* A state exists when every move on its path is a legal move of the state before.
Exists(k, n) == \A j \in 1..Len(n) : n[j] <= k[SubSeq(n, 1, j - 1)]

Reachable(k) == {n \in Nodes : Exists(k, n)}

\* The number of legal moves of every state, given ply by ply.
Shape(r, k1, k2) ==
    [n \in Nodes |-> IF n = Root THEN r
                     ELSE IF n \in Ply1 THEN k1[n]
                     ELSE IF n \in Ply2 THEN k2[n]
                     ELSE 0]

\* The game trees: a state that does not exist has no moves, and the tree
\* has at most MaxStates states.
Trees == {k \in {Shape(r, k1, k2) : r \in 0..2, k1 \in [Ply1 -> 0..2], k2 \in [Ply2 -> 0..2]} :
            /\ \A n \in Nodes : ~Exists(k, n) => k[n] = 0
            /\ Cardinality(Reachable(k)) <= MaxStates}

\* ------------------------------------------- the invocations of a search
Top == stack[Len(stack)]
Caller == stack[Len(stack) - 1]
Pop(s) == SubSeq(s, 1, Len(s) - 1)

MinimaxFrame(game, d, maximizing_player) ==
    [game |-> game, depth |-> d, maximizing_player |-> maximizing_player,
     at |-> "entry", score |-> None, move |-> NO_MOVE, i |-> 0]

AlphabetaFrame(game, d, alpha, beta, maximizing_player) ==
    [game |-> game, depth |-> d, alpha |-> alpha, beta |-> beta,
     maximizing_player |-> maximizing_player,
     at |-> "entry", score |-> None, move |-> NO_MOVE, i |-> 0]

Frame(game, d) ==
    IF method = "minimax" THEN MinimaxFrame(game, d, TRUE)
    ELSE AlphabetaFrame(game, d, NegInf, PosInf, TRUE)

legal_moves == get_legal_moves(Root)

Idle == [exc |-> "idle", score |-> None, move |-> NO_MOVE]

NoCall == [depth |-> 0, maximizing_player |-> TRUE, minimax |-> Idle, alphabeta |-> Idle]

\* ------------------------------------------------------------------ Init
Init ==
    /\ kids \in Trees
    /\ score_fn = [n \in {} |-> 0]
    /\ method \in {"minimax", "alphabeta"}
    /\ iterative \in BOOLEAN
    /\ search_depth \in 1..MaxDepth
    \* search_depth is not read by the iterative driver
    /\ iterative => search_depth = 1
    /\ pc = "start"
    /\ depth = 0
    /\ score = None
    /\ move = NO_MOVE
    /\ stack = <<>>
    /\ exc = "none"
    /\ result = NO_MOVE
    /\ fn = NoCall

\* --------------------------------------------------------------- get_move
\* Mutant: the fallback move is the sentinel, not legal_moves[0].
GetMove_sentinel_fallback ==
    /\ pc = "start"
    /\ IF Len(legal_moves) = 0
       THEN /\ pc' = "returned"
            /\ result' = NO_MOVE
            /\ UNCHANGED <<score, move, depth>>
       ELSE /\ pc' = "try"
            /\ score' = None
            /\ move' = NO_MOVE
            /\ depth' = IF iterative THEN 1 ELSE depth
            /\ UNCHANGED result
    /\ UNCHANGED <<kids, score_fn, method, iterative, search_depth, stack, exc, fn>>

\* Lines 134-148: no legal move, or the initialisation before the try block.
GetMove ==
    /\ pc = "start"
    /\ IF Len(legal_moves) = 0
       THEN /\ pc' = "returned"
            /\ result' = NO_MOVE
            /\ UNCHANGED <<score, move, depth>>
       ELSE /\ pc' = "try"
            /\ score' = None
            /\ move' = legal_moves[1]
            /\ depth' = IF iterative THEN 1 ELSE depth
            /\ UNCHANGED result
    /\ UNCHANGED <<kids, score_fn, method, iterative, search_depth, stack, exc, fn>>

\* Lines 155-159: method(game, depth) or method(game, self.search_depth).
CallSearch ==
    /\ pc = "try"
    /\ stack = <<>>
    /\ stack' = <<Frame(Root, IF iterative THEN depth ELSE search_depth)>>
    /\ pc' = "search"
    /\ UNCHANGED <<kids, score_fn, method, iterative, search_depth, depth, score, move,
                   exc, result, fn>>

\* Mutant: only the score of a completed search is recorded, not its move.
SearchReturn_keeps_move ==
    /\ pc = "search"
    /\ Len(stack) = 1
    /\ Top.at = "ret"
    /\ score' = Top.score
    /\ stack' = <<>>
    /\ IF iterative
       THEN /\ depth' = depth + 1
            /\ pc' = "try"
            /\ UNCHANGED result
       ELSE /\ pc' = "returned"
            /\ result' = move
            /\ UNCHANGED depth
    /\ UNCHANGED <<kids, score_fn, method, iterative, search_depth, exc, move, fn>>

\* Lines 157 and 159: the search returned, score and move are assigned; the
\* iterative driver goes on to the next depth, the fixed-depth one returns.
SearchReturn ==
    /\ pc = "search"
    /\ Len(stack) = 1
    /\ Top.at = "ret"
    /\ score' = Top.score
    /\ move' = Top.move
    /\ stack' = <<>>
    /\ IF iterative
       THEN /\ depth' = depth + 1
            /\ pc' = "try"
            /\ UNCHANGED result
       ELSE /\ pc' = "returned"
            /\ result' = Top.move
            /\ UNCHANGED depth
    /\ UNCHANGED <<kids, score_fn, method, iterative, search_depth, exc, fn>>

\* Mutant: no handler, the Timeout leaves get_move.
Catch_reraise ==
    /\ pc = "unwind"
    /\ stack = <<>>
    /\ exc = "Timeout"
    /\ pc' = "raised"
    /\ UNCHANGED <<kids, score_fn, method, iterative, search_depth, depth, score, move,
                   stack, exc, result, fn>>

\* Lines 160-164: the Timeout is caught and the recorded move returned.
Catch ==
    /\ pc = "unwind"
    /\ stack = <<>>
    /\ exc = "Timeout"
    /\ pc' = "returned"
    /\ exc' = "none"
    /\ result' = move
    /\ UNCHANGED <<kids, score_fn, method, iterative, search_depth, depth, score, move,
                   stack, fn>>

\* Line 160 catches Timeout only: any other exception leaves get_move.
Escape ==
    /\ pc = "unwind"
    /\ stack = <<>>
    /\ exc # "Timeout"
    /\ pc' = "raised"
    /\ UNCHANGED <<kids, score_fn, method, iterative, search_depth, depth, score, move,
                   stack, exc, result, fn>>

\* ------------------------------------------------- minimax and alphabeta
\* Lines 197 / 270, test false.  The clock is the caller's: it may run low
\* at any query, and it has run low once the iterative driver is past
\* MaxDepth.
TimeOk ==
    /\ pc = "search"
    /\ Top.at = "entry"
    /\ iterative => depth <= MaxDepth
    /\ stack' = [stack EXCEPT ![Len(stack)].at = "checked"]
    /\ UNCHANGED <<kids, score_fn, method, iterative, search_depth, pc, depth, score, move,
                   exc, result, fn>>

\* Lines 197-198 / 270-271: raise Timeout().
RaiseTimeout ==
    /\ pc = "search"
    /\ Top.at = "entry"
    /\ exc' = "Timeout"
    /\ pc' = "unwind"
    /\ UNCHANGED <<kids, score_fn, method, iterative, search_depth, depth, score, move,
                   stack, result, fn>>

\* An exception leaves one pending invocation.
Unwind ==
    /\ pc = "unwind"
    /\ stack # <<>>
    /\ stack' = Pop(stack)
    /\ UNCHANGED <<kids, score_fn, method, iterative, search_depth, pc, depth, score, move,
                   exc, result, fn>>

\* Mutant: the base case is taken before the clock is queried.
Evaluate_before_check ==
    /\ pc = "search"
    /\ Top.at \in {"entry", "checked"}
    /\ Top.depth = 0 \/ is_game_terminal(Top.game)
    /\ \E v \in Scores :
         /\ IF Top.game \in DOMAIN score_fn
            THEN v = score_fn[Top.game] /\ UNCHANGED score_fn
            ELSE score_fn' = (Top.game :> v) @@ score_fn
         /\ stack' = [stack EXCEPT ![Len(stack)] =
                         [@ EXCEPT !.at = "ret", !.score = v, !.move = NO_MOVE]]
    /\ UNCHANGED <<kids, method, iterative, search_depth, pc, depth, score, move,
                   exc, result, fn>>

\* Lines 202-205 / 275-278: the base case, self.score(game, self).
Evaluate ==
    /\ pc = "search"
    /\ Top.at = "checked"
    /\ Top.depth = 0 \/ is_game_terminal(Top.game)
    /\ \E v \in Scores :
         /\ IF Top.game \in DOMAIN score_fn
            THEN v = score_fn[Top.game] /\ UNCHANGED score_fn
            ELSE score_fn' = (Top.game :> v) @@ score_fn
         /\ stack' = [stack EXCEPT ![Len(stack)] =
                         [@ EXCEPT !.at = "ret", !.score = v, !.move = NO_MOVE]]
    /\ UNCHANGED <<kids, method, iterative, search_depth, pc, depth, score, move,
                   exc, result, fn>>

\* Lines 207-213 / 280-286: the initialisation before the loop.
BeginLoop ==
    /\ pc = "search"
    /\ Top.at = "checked"
    /\ ~(Top.depth = 0 \/ is_game_terminal(Top.game))
    /\ stack' = [stack EXCEPT ![Len(stack)] =
                    [@ EXCEPT !.at = "loop", !.score = None,
                              !.move = get_legal_moves(Top.game)[1], !.i = 1]]
    /\ UNCHANGED <<kids, score_fn, method, iterative, search_depth, pc, depth, score, move,
                   exc, result, fn>>

\* Line 218: the recursive call of minimax for the move m = moves[i].
MinimaxRecurse ==
    /\ pc = "search"
    /\ method = "minimax"
    /\ Top.at = "loop"
    /\ LET m == get_legal_moves(Top.game)[Top.i]
       IN stack' = Append(stack, MinimaxFrame(forecast_move(Top.game, m), Top.depth - 1,
                                              ~Top.maximizing_player))
    /\ UNCHANGED <<kids, score_fn, method, iterative, search_depth, pc, depth, score, move,
                   exc, result, fn>>

\* Line 291: the recursive call of alphabeta with the current bounds.
AlphabetaRecurse ==
    /\ pc = "search"
    /\ method = "alphabeta"
    /\ Top.at = "loop"
    /\ LET m == get_legal_moves(Top.game)[Top.i]
       IN stack' = Append(stack, AlphabetaFrame(forecast_move(Top.game, m), Top.depth - 1,
                                                Top.alpha, Top.beta,
                                                ~Top.maximizing_player))
    /\ UNCHANGED <<kids, score_fn, method, iterative, search_depth, pc, depth, score, move,
                   exc, result, fn>>

\* The caller's frame after the loop body ran for the child's score s:
\* the next move, or the return after the last move (or after a cut).
Advance(f, b, stop) ==
    [f EXCEPT !.score = b.score, !.move = b.move,
              !.i = IF stop THEN @ ELSE @ + 1,
              !.at = IF stop THEN "ret" ELSE "loop"]

\* Lines 218-225: the child returned s; minimax's loop body.
MinimaxReturn ==
    /\ pc = "search"
    /\ method = "minimax"
    /\ Len(stack) >= 2
    /\ Top.at = "ret"
    /\ Top.score # None
    /\ LET f == Caller
           m == get_legal_moves(f.game)[f.i]
           b == minimax_body(f.maximizing_player, Top.score, m, f.score, f.move)
           last == f.i = Len(get_legal_moves(f.game))
       IN stack' = [Pop(stack) EXCEPT ![Len(stack) - 1] = Advance(f, b, last)]
    /\ UNCHANGED <<kids, score_fn, method, iterative, search_depth, pc, depth, score, move,
                   exc, result, fn>>

\* Lines 291-305: the child returned s; alphabeta's loop body.
AlphabetaReturn ==
    /\ pc = "search"
    /\ method = "alphabeta"
    /\ Len(stack) >= 2
    /\ Top.at = "ret"
    /\ Top.score # None
    /\ LET f == Caller
           m == get_legal_moves(f.game)[f.i]
           b == alphabeta_body(f.maximizing_player, Top.score, m, f.score, f.move,
                               f.alpha, f.beta)
           last == f.i = Len(get_legal_moves(f.game))
       IN stack' = [Pop(stack) EXCEPT ![Len(stack) - 1] =
                       [Advance(f, b, last \/ b.cut) EXCEPT !.alpha = b.alpha,
                                                            !.beta = b.beta]]
    /\ UNCHANGED <<kids, score_fn, method, iterative, search_depth, pc, depth, score, move,
                   exc, result, fn>>

\* Lines 221 / 294 with s = None: the comparison in minimax_change_decision
\* (lines 315, 317) raises TypeError in the caller.
RaiseTypeError ==
    /\ pc = "search"
    /\ Len(stack) >= 2
    /\ Top.at = "ret"
    /\ Top.score = None
    /\ stack' = Pop(stack)
    /\ exc' = "TypeError"
    /\ pc' = "unwind"
    /\ UNCHANGED <<kids, score_fn, method, iterative, search_depth, depth, score, move,
                   result, fn>>

Next ==
    \/ GetMove
    \/ CallSearch
    \/ SearchReturn
    \/ Catch
    \/ Escape
    \/ TimeOk
    \/ RaiseTimeout
    \/ Unwind
    \/ Evaluate
    \/ BeginLoop
    \/ MinimaxRecurse
    \/ AlphabetaRecurse
    \/ MinimaxReturn
    \/ AlphabetaReturn
    \/ RaiseTypeError

Spec == Init /\ [][Next]_vars

\* get_move runs to its end: no step is left pending for ever.
FairSpec == Spec /\ WF_vars(Next)

\* --------------------------------- direct calls of minimax and alphabeta
\* minimax(game, depth, maximizing_player) and alphabeta(game, depth) with
\* the default bounds, on every game tree, evaluation function and depth,
\* under a deadline that never fires.
InitFn ==
    /\ kids \in Trees
    /\ score_fn \in [Reachable(kids) -> Scores]
    /\ fn \in [depth : 0..MaxDepth, maximizing_player : BOOLEAN,
               minimax : {Idle}, alphabeta : {Idle}]
    /\ method = "minimax"
    /\ iterative = FALSE
    /\ search_depth = 1
    /\ pc = "fn"
    /\ depth = 0
    /\ score = None
    /\ move = NO_MOVE
    /\ stack = <<>>
    /\ exc = "none"
    /\ result = NO_MOVE

CallMinimax ==
    /\ pc = "fn"
    /\ fn.minimax = Idle
    /\ fn' = [fn EXCEPT !.minimax = minimax(Root, fn.depth, fn.maximizing_player)]
    /\ UNCHANGED <<kids, score_fn, method, iterative, search_depth, pc, depth, score, move,
                   stack, exc, result>>

CallAlphabeta ==
    /\ pc = "fn"
    /\ fn.minimax # Idle
    /\ fn.alphabeta = Idle
    /\ fn' = [fn EXCEPT !.alphabeta =
                 alphabeta(Root, fn.depth, NegInf, PosInf, fn.maximizing_player)]
    /\ UNCHANGED <<kids, score_fn, method, iterative, search_depth, pc, depth, score, move,
                   stack, exc, result>>

NextFn ==
    \/ CallMinimax
    \/ CallAlphabeta

SpecFn == InitFn /\ [][NextFn]_vars

\* ================================================================ claims

\* The search get_move runs, as a function of the depth.
Search(d) ==
    IF method = "minimax" THEN minimax(Root, d, TRUE)
    ELSE alphabeta(Root, d, NegInf, PosInf, TRUE)

Range(seq) == {seq[k] : k \in 1..Len(seq)}

\* A step in which a child's result is taken by the loop body of its caller.
LoopStep ==
    /\ pc = "search" /\ pc' = "search"
    /\ Len(stack) >= 2
    /\ Top.at = "ret"
    /\ Len(stack') = Len(stack) - 1

\* The caller's frame after such a step.
After == stack'[Len(stack')]

Replaced == After.score # Caller.score \/ After.move # Caller.move

\* The selection rule as specified: strictly better than the running best,
\* a running best that is not set counting as -infinity / +infinity.
StrictlyBetter(maxplayer, proposed, current) ==
    IF maxplayer THEN proposed > (IF current = None THEN NegInf ELSE current)
    ELSE proposed < (IF current = None THEN PosInf ELSE current)

\* ---------------------------------------------------------------- C1
\* C1: for every game state and depth, minimax(state, d) and
\* alphabeta(state, d), called with the default bounds and
\* maximizing_player = True under a deadline that never fires, end the same
\* way with the identical (score, move) pair.
C1_MinimaxEqualsAlphabeta ==
    (pc = "fn" /\ fn.maximizing_player /\ fn.minimax # Idle /\ fn.alphabeta # Idle)
        => fn.minimax = fn.alphabeta

\* ---------------------------------------------------------------- C2
\* C2: with iterative deepening and a non-empty legal-move list, when the
\* Timeout leaves the search at depth d, get_move returns the move of the
\* complete search at depth d - 1, and the first legal move when d = 1.
C2_ReturnsLastCompletedDepth ==
    (pc = "returned" /\ iterative /\ Len(legal_moves) > 0)
        => result = IF depth = 1 THEN legal_moves[1] ELSE Search(depth - 1).move

\* A Timeout at depth >= 2 after which the move returned is not the fallback.
C2_Witness ==
    /\ pc = "returned" /\ iterative /\ depth >= 2
    /\ result # legal_moves[1]

\* ---------------------------------------------------------------- C3
\* C3: the move get_move returns is one of the legal moves passed in, or it
\* is the sentinel (-1, -1) and the legal-move list was empty.
C3_ReturnsLegalMove ==
    pc = "returned"
        => \/ result \in Range(legal_moves)
           \/ result = NO_MOVE /\ Len(legal_moves) = 0

\* get_move returned a legal move other than its initial fallback.
C3_Witness ==
    /\ pc = "returned"
    /\ Len(legal_moves) = 2
    /\ result = legal_moves[2]

\* ---------------------------------------------------------------- C4
\* C4: a Timeout raised at any recursion depth, in either mode, stays
\* inside get_move: it leaves the pending invocations one by one, get_move
\* catches it and returns its recorded move; it never reaches the caller.
C4_TimeoutCaught ==
    /\ [](exc = "Timeout" => pc = "unwind" /\ (stack # <<>> \/ ENABLED Catch))
    /\ [][exc = "Timeout" =>
            \/ exc' = "Timeout" /\ pc' = "unwind" /\ Len(stack') < Len(stack)
            \/ stack = <<>> /\ pc' = "returned" /\ result' = move /\ exc' = "none"]_vars

\* A Timeout raised three invocations deep in fixed-depth mode.
C4_Witness ==
    /\ exc = "Timeout"
    /\ ~iterative
    /\ Len(stack) = 3

\* ---------------------------------------------------------------- C5
\* C5: an invocation of minimax or alphabeta does nothing before its query
\* of the clock, and once the Timeout is raised there is, until get_move
\* returns, no evaluation, no further invocation and no change of any
\* pending invocation's running best nor of get_move's score and move.
C5_CheckFirstThenNothing ==
    /\ [][(pc = "search" /\ stack # <<>> /\ Top.at = "entry") =>
            /\ score_fn' = score_fn
            /\ \/ stack' = [stack EXCEPT ![Len(stack)].at = "checked"] /\ exc' = "none"
               \/ stack' = stack /\ exc' = "Timeout" /\ pc' = "unwind"]_vars
    /\ [][exc = "Timeout" =>
            /\ score_fn' = score_fn
            /\ Len(stack') <= Len(stack)
            /\ stack' = SubSeq(stack, 1, Len(stack'))
            /\ score' = score /\ move' = move]_vars

\* A Timeout in flight over a pending invocation that has a running best.
C5_Witness ==
    /\ exc = "Timeout"
    /\ Len(stack) >= 2
    /\ stack[1].score # None

\* ---------------------------------------------------------------- C6
\* C6: for a non-terminal state searched by minimax at depth >= 1 the
\* returned move is the first move, in enumeration order, whose child score
\* is the extremal child score of the ply.
ChildScore(k) ==
    minimax(forecast_move(Root, get_legal_moves(Root)[k]), fn.depth - 1,
            ~fn.maximizing_player).score

Extremal(k) ==
    \A j \in 1..kids[Root] :
        IF fn.maximizing_player THEN ChildScore(j) <= ChildScore(k)
        ELSE ChildScore(j) >= ChildScore(k)

C6_FirstExtremalMove ==
    (pc = "fn" /\ fn.minimax.exc = "none" /\ fn.depth >= 1 /\ ~is_game_terminal(Root))
        => \E k \in 1..kids[Root] :
             /\ Extremal(k)
             /\ \A j \in 1..(k - 1) : ~Extremal(j)
             /\ fn.minimax.move = get_legal_moves(Root)[k]

\* ---------------------------------------------------------------- C7
\* C7: in every iteration of the move loop the running best (score, move)
\* is replaced by the candidate if and only if the candidate score is
\* strictly better than the running best score, whatever its value.
C7_ReplacedIffStrictlyBetter ==
    [][LoopStep =>
        (Replaced <=> StrictlyBetter(Caller.maximizing_player, Top.score, Caller.score))]_vars

\* ---------------------------------------------------------------- C8
\* C8: every call of minimax or alphabeta that completes returns a score
\* that is a number, never None.
C8_ScoreIsNumber ==
    pc = "fn" =>
        /\ fn.minimax.exc = "none" => fn.minimax.score # None
        /\ fn.alphabeta.exc = "none" => fn.alphabeta.score # None

\* ---------------------------------------------------------------- C9
\* C9: in the move loop of an alphabeta invocation the bounds change only
\* in an iteration that replaced the running best; on a maximizing ply
\* alpha becomes the new best score only when that score exceeds alpha and
\* beta stays the value received, on a minimizing ply beta becomes the new
\* best score only when that score is below beta and alpha stays the value
\* received; alpha never decreases, beta never increases, and a child
\* receives the bounds as its earlier siblings left them.
C9_BoundsFrame ==
    /\ [][(LoopStep /\ method = "alphabeta") =>
            /\ (After.alpha # Caller.alpha \/ After.beta # Caller.beta) => Replaced
            /\ After.alpha >= Caller.alpha
            /\ After.beta <= Caller.beta
            /\ IF Caller.maximizing_player
               THEN /\ After.beta = Caller.beta
                    /\ After.alpha # Caller.alpha
                         => After.alpha = After.score /\ After.score > Caller.alpha
                    /\ (Replaced /\ After.score > Caller.alpha) => After.alpha = After.score
               ELSE /\ After.alpha = Caller.alpha
                    /\ After.beta # Caller.beta
                         => After.beta = After.score /\ After.score < Caller.beta
                    /\ (Replaced /\ After.score < Caller.beta) => After.beta = After.score]_vars
    /\ []((method = "alphabeta" /\ pc = "search") =>
            /\ stack[1].maximizing_player /\ stack[1].beta = PosInf
            /\ \A k \in 2..Len(stack) :
                 /\ stack[k].maximizing_player => stack[k].beta = stack[k - 1].beta
                 /\ ~stack[k].maximizing_player => stack[k].alpha = stack[k - 1].alpha
                 /\ stack[k].at = "entry" =>
                      stack[k].alpha = stack[k - 1].alpha /\ stack[k].beta = stack[k - 1].beta)

\* The outermost invocation returns a running best below its alpha: the
\* last replacement of the running best left the bounds as they were.
C9_Witness ==
    /\ method = "alphabeta" /\ pc = "search"
    /\ Len(stack) = 1
    /\ stack[1].at = "ret"
    /\ stack[1].score < stack[1].alpha

\* --------------------------------------------------------------- C10
\* C10: with iterative deepening and a non-empty legal-move list get_move
\* searches the depths 1, 2, 3, ... in increasing order, each once, and,
\* the clock running low in the end, eventually returns.
C10_IncreasingDepthsThenReturns ==
    /\ [][depth' = depth \/ (depth' = depth + 1 /\ stack' = <<>>)]_vars
    /\ (iterative /\ Len(legal_moves) > 0) => <>(pc = "returned")

====
